---- MODULE Spec2Model ----
(***************************************************************************)
(* Cost analytics core of the AWS cost optimisation service:               *)
(* DataProcessor.process_cost_data and calculate_trends                    *)
(* (src/data_processor.py) and the AdvancedAnalytics static methods        *)
(* (src/advanced_analytics.py).                                            *)
(*                                                                         *)
(* A frame (pandas DataFrame) is a sequence of rows.  Floating point       *)
(* numbers are modelled as exact rationals plus the value NaN; a square    *)
(* root is taken to two decimals.    Dates are day ordinals; isoformat     *)
(* renders them as calendar dates.  Every component runs inside            *)
(* try / except Exception: raised holds what gets past the except clause.  *)
(***************************************************************************)
EXTENDS Integers, Sequences, FiniteSets, TLC

VARIABLES
    cost_data,          \* the frame handed to the analyses
    sklearn_installed,  \* whether scikit-learn can be imported
    raw_data,           \* the raw records handed to process_cost_data
    scenarios,          \* the list handed to compare_cost_scenarios
    now,                \* the clock read by datetime.now()
    prev,               \* an earlier call of process_cost_data, and what it returned
    call,               \* the last call and its arguments
    result,             \* what the last call returned
    raised,             \* the exception the last call let through to its caller
    sync_history,       \* DataSyncScheduler.sync_history
    chatbot             \* what chatbot.sync_aws_data does when called

vars == <<cost_data, sklearn_installed, raw_data, scenarios, now, prev, call, result, raised, sync_history, chatbot>>

\* what a call of an analysis leaves alone
inputs == <<cost_data, sklearn_installed, raw_data, scenarios, now, prev, sync_history, chatbot>>

NoCall == [op |-> "none"]

\* a chatbot whose sync_aws_data returns its data
Configured == [mode |-> "success", changes |-> 0]

\* no earlier call of process_cost_data
NoPrev == [op |-> "none", result |-> <<>>]

\* no raw records, no scenarios, the clock at its start, nothing called yet
Idle ==
    /\ raw_data = <<>>
    /\ scenarios = <<>>
    /\ now = 0
    /\ sync_history = <<>>
    /\ chatbot = Configured
    /\ prev = NoPrev
    /\ call = NoCall
    /\ result = <<>>
    /\ raised = "none"

----------------------------------------------------------------------------
(* Bounds of the explored inputs *)

MaxRows == 3

MaxDate == 2

MaxTopN == 2

MaxWindow == 2

MaxDaysAhead == 2

TrendCosts == {0, 80, 100}

ForecastCosts == {0, 10}

MaxAnomalyDate == 3

MaxMonths == 12

MaxScenarios == 3

MaxRawRows == 2

MaxNow == 2

MaxBatchRows == 2

MaxSyncRuns == 102

MaxChatbotChanges == 1

MaxZscoreDates == 11

AnomalyCosts == {0, 10, 100}

\* contamination, in percent
Contaminations == {10}

\* anomaly scores an isolation forest may give a sample
ScoreLevels == {1, 2}

Methods == {"zscore", "iqr", "isolation_forest"}

ZscoreCosts == <<0, 7>>

\* a method name the function does not know
UnknownMethods == {"dbscan"}

\* confidence levels, in percent
Confidences == {80, 95}

DriverCosts == {0, 300, 700}

MonthlySavings == {-200, 0, 100, 200, 400}

ImplementationCosts == {-500, 0, 250, 500, 1000}

CurrentCosts == {1000}

ScenarioNames == {"Current", "Optimized", "Aggressive"}

ScenarioCosts == {500, 700, 1000}

ElasticityCosts == {1, 2}

ElasticityUsages == {1, 2}

\* service=None (or any falsy value): no filter
NoService == ""

DriverUsages == {0, 2}

\* group keys, listed in the lexicographic order pandas sorts them in
Services == <<"EC2", "S3">>

Regions == <<"eu-west-1", "us-east-1">>

----------------------------------------------------------------------------
(* Numbers: a float is NaN or an exact fraction n/d with d > 0 *)

Abs(x) == IF x < 0 THEN -x ELSE x

Min(a, b) == IF a <= b THEN a ELSE b

RECURSIVE GCD(_, _)
GCD(a, b) == IF b = 0 THEN a ELSE GCD(b, a % b)

NaN == [nan |-> TRUE, n |-> 0, d |-> 1]

Frac(n, d) ==
    IF d = 0 THEN NaN
    ELSE LET g == GCD(Abs(n), Abs(d))
             s == IF d < 0 THEN -1 ELSE 1
         IN  [nan |-> FALSE, n |-> s * (n \div g), d |-> s * (d \div g)]

Num(k) == [nan |-> FALSE, n |-> k, d |-> 1]

FAdd(a, b) == IF a.nan \/ b.nan THEN NaN ELSE Frac(a.n * b.d + b.n * a.d, a.d * b.d)

FSub(a, b) == IF a.nan \/ b.nan THEN NaN ELSE Frac(a.n * b.d - b.n * a.d, a.d * b.d)

FMul(a, b) == IF a.nan \/ b.nan THEN NaN ELSE Frac(a.n * b.n, a.d * b.d)

\* x / 0 is inf or nan in numpy; no caller below divides by a zero it has not tested
FDiv(a, b) == IF a.nan \/ b.nan THEN NaN ELSE Frac(a.n * b.d, a.d * b.n)

\* every comparison with NaN is False
FGt(a, b) == ~a.nan /\ ~b.nan /\ a.n * b.d > b.n * a.d

FLt(a, b) == FGt(b, a)

----------------------------------------------------------------------------
(* Frames *)

Row(date, service, region, cost, usage) ==
    [date |-> date, service |-> service, region |-> region,
     cost |-> cost, usage |-> usage]

Range(s) == {s[i] : i \in 1..Len(s)}

Frames(rows, maxlen) == UNION {[1..n -> rows] : n \in 0..maxlen}

RECURSIVE SumSeq(_)
SumSeq(s) == IF s = <<>> THEN 0 ELSE Head(s) + SumSeq(Tail(s))

\* sum of f(row) over the rows of df selected by keep(row)
SumOver(df, keep(_), f(_)) ==
    SumSeq([i \in 1..Len(df) |-> IF keep(df[i]) THEN f(df[i]) ELSE 0])

RowCost(r) == r.cost

RowUsage(r) == r.usage

RECURSIVE SortedInts(_)
\* the elements of a finite set of integers, increasing
SortedInts(S) ==
    IF S = {} THEN <<>>
    ELSE LET m == CHOOSE x \in S : \A y \in S : x <= y
         IN  <<m>> \o SortedInts(S \ {m})

\* a daily series reindexed over the calendar: every day from the first date
\* to the last has an entry, 0 on the days without an observation
DailyCostsZeroFilled(df) ==
    LET present == {df[i].date : i \in 1..Len(df)}
        first == CHOOSE d \in present : \A e \in present : d <= e
        last == CHOOSE d \in present : \A e \in present : d >= e
    IN  IF present = {} THEN <<>>
        ELSE [k \in 1..(last - first + 1) |->
                 LET on_date(r) == r.date = first + k - 1
                 IN  [date |-> first + k - 1, cost |-> SumOver(df, on_date, RowCost)]]

\* cost_data.groupby("date")["cost"].sum(): one entry per distinct date, in
\* increasing date order, holding the sum of that date's costs
DailyCosts(df) ==
    LET dates == SortedInts({df[i].date : i \in 1..Len(df)})
    IN  [k \in 1..Len(dates) |->
            LET on_date(r) == r.date = dates[k]
            IN  [date |-> dates[k], cost |-> SumOver(df, on_date, RowCost)]]

----------------------------------------------------------------------------
(* try: ... except Exception as e: logger.error(...); return <empty result> *)

\* the exceptions a component's body raises
Exceptions == {"KeyError", "ValueError", "AttributeError", "LinAlgError"}

\* an except clause that names ValueError alone
ExceptValueError(exc) == IF exc = "ValueError" THEN "none" ELSE exc

\* what the except clause of a component lets through to the caller, given
\* the exception its body raised ("none" when the body returned): every
\* handler catches Exception, the base of them all
Except(exc) == IF exc \in Exceptions THEN "none" ELSE exc

\* df[column], df.groupby(column): KeyError on a frame without the column
MissingColumn(df, columns) == df # <<>> /\ ~(columns \subseteq DOMAIN df[1])

----------------------------------------------------------------------------
(* AdvancedAnalytics.identify_cost_drivers *)

\* the (service, region) keys present in df, in the sorted order of groupby
GroupKeys(df) ==
    LET present(s, r) == \E i \in 1..Len(df) : df[i].service = s /\ df[i].region = r
        ranks == {(p[1] - 1) * Len(Regions) + p[2] :
                     p \in {q \in (1..Len(Services)) \X (1..Len(Regions)) :
                               present(Services[q[1]], Regions[q[2]])}}
        sorted == SortedInts(ranks)
    IN  [k \in 1..Len(sorted) |->
            <<Services[((sorted[k] - 1) \div Len(Regions)) + 1],
              Regions[((sorted[k] - 1) % Len(Regions)) + 1]>>]

\* lines 233-238: the aggregated table, one row per group
GroupTable(df) ==
    LET keys == GroupKeys(df)
    IN  [k \in 1..Len(keys) |->
            LET in_group(r) == r.service = keys[k][1] /\ r.region = keys[k][2]
            IN  [service |-> keys[k][1], region |-> keys[k][2],
                 total_cost |-> SumOver(df, in_group, RowCost),
                 total_usage |-> SumOver(df, in_group, RowUsage)]]

RECURSIVE CumSum(_, _)
\* Series.cumsum(): s[1], s[1]+s[2], ... in the order the rows are in
CumSum(s, k) == IF k = 0 THEN Num(0) ELSE FAdd(CumSum(s, k - 1), s[k])

\* lines 241-243: percentage of the grand total, and its running sum, which is
\* taken while the table is still in group-key order (the sort is on line 248)
WithPercentages(table) ==
    LET any(g) == TRUE
        group_total(g) == g.total_cost
        total_cost == SumOver(table, any, group_total)
        percentage == [k \in 1..Len(table) |->
                          IF total_cost > 0
                          THEN FMul(Frac(table[k].total_cost, total_cost), Num(100))
                          ELSE Num(0)]
    IN  [k \in 1..Len(table) |->
            [service |-> table[k].service, region |-> table[k].region,
             total_cost |-> table[k].total_cost,
             total_usage |-> table[k].total_usage,
             percentage |-> percentage[k],
             cumulative_percentage |-> CumSum(percentage, k)]]

\* bool(Series): pandas raises ValueError ("The truth value of a Series is
\* ambiguous") for a Series of any length and any content
SeriesTruthValue(series) == "ValueError"

\* lines 244-245: `A if drivers["total_usage"] > 0 else 0` asks for the truth
\* value of the whole boolean column
CostPerUnit(table) ==
    LET cond == SeriesTruthValue([k \in 1..Len(table) |-> table[k].total_usage > 0])
    IN  IF cond = "ValueError" THEN [raised |-> TRUE, column |-> <<>>]
        ELSE [raised |-> FALSE,
              column |-> [k \in 1..Len(table) |->
                             IF cond THEN Frac(table[k].total_cost, table[k].total_usage)
                             ELSE Num(0)]]

RECURSIVE SortDescending(_)
\* sort_values("total_cost", ascending=False)
SortDescending(table) ==
    IF table = <<>> THEN <<>>
    ELSE LET i == CHOOSE i \in 1..Len(table) :
                      /\ \A j \in 1..Len(table) : table[j].total_cost <= table[i].total_cost
                      /\ \A j \in 1..(i - 1) : table[j].total_cost < table[i].total_cost
         IN  <<table[i]>> \o
             SortDescending([k \in 1..(Len(table) - 1) |->
                                IF k < i THEN table[k] ELSE table[k + 1]])

\* DataFrame.head(n) for n >= 0
DfHead(table, n) == SubSeq(table, 1, Min(n, Len(table)))

DriverColumns == {"service", "region", "cost", "usage"}

identify_cost_drivers(df, top_n) ==
    IF df = <<>> THEN <<>>
    ELSE IF MissingColumn(df, DriverColumns) THEN <<>>   \* except Exception: return []
    ELSE LET drivers == WithPercentages(GroupTable(df))
             cpu == CostPerUnit(drivers)
         IN  IF cpu.raised THEN <<>>      \* except Exception: return []
             ELSE LET ranked == DfHead(SortDescending(
                                    [k \in 1..Len(drivers) |->
                                        [service |-> drivers[k].service,
                                         region |-> drivers[k].region,
                                         total_cost |-> drivers[k].total_cost,
                                         percentage |-> drivers[k].percentage,
                                         cumulative_percentage |->
                                             drivers[k].cumulative_percentage,
                                         cost_per_unit |-> cpu.column[k]]]), top_n)
                  IN  ranked

\* the exception raised inside the try block of identify_cost_drivers
DriversError(df) ==
    IF df = <<>> THEN "none"
    ELSE IF MissingColumn(df, DriverColumns) THEN "KeyError"
    ELSE IF CostPerUnit(WithPercentages(GroupTable(df))).raised THEN "ValueError"
    ELSE "none"

CallIdentifyCostDrivers ==
    \E top_n \in 0..MaxTopN :
        /\ call' = [op |-> "identify_cost_drivers", top_n |-> top_n]
        /\ result' = identify_cost_drivers(cost_data, top_n)
        /\ raised' = Except(DriversError(cost_data))
        /\ UNCHANGED inputs

DriverRows ==
    {Row(0, Services[s], Regions[r], c, u) :
        s \in 1..Len(Services), r \in 1..Len(Regions),
        c \in DriverCosts, u \in DriverUsages}

InitDrivers ==
    /\ cost_data \in Frames(DriverRows, MaxRows)
    /\ sklearn_installed = TRUE
    /\ Idle

NextDrivers == CallIdentifyCostDrivers

SpecDrivers == InitDrivers /\ [][NextDrivers]_vars

----------------------------------------------------------------------------
(* Claims on identify_cost_drivers *)

GroupsOf(df) == {<<df[i].service, df[i].region>> : i \in 1..Len(df)}

GroupCost(df, g) ==
    LET in_g(r) == <<r.service, r.region>> = g IN SumOver(df, in_g, RowCost)

GroupUsage(df, g) ==
    LET in_g(r) == <<r.service, r.region>> = g IN SumOver(df, in_g, RowUsage)

DriversCalled == call.op = "identify_cost_drivers" /\ cost_data # <<>>

\* C1: for a non-empty observation set identify_cost_drivers returns a
\* non-empty list of exactly min(top_n, number of groups) drivers, each a
\* distinct (service, region) group with its total_cost, and no group left out
\* costs more than a group returned.
C1_OneDriverPerGroupTopN ==
    (DriversCalled /\ call.top_n >= 1) =>
        /\ Len(result) > 0
        /\ Len(result) = Min(call.top_n, Cardinality(GroupsOf(cost_data)))
        /\ \A k \in 1..Len(result) :
              /\ <<result[k].service, result[k].region>> \in GroupsOf(cost_data)
              /\ result[k].total_cost =
                     GroupCost(cost_data, <<result[k].service, result[k].region>>)
              /\ \A j \in 1..Len(result) :
                     (j # k) => <<result[j].service, result[j].region>> #
                                <<result[k].service, result[k].region>>
              /\ \A g \in GroupsOf(cost_data) :
                     (\A j \in 1..Len(result) :
                          <<result[j].service, result[j].region>> # g)
                         => GroupCost(cost_data, g) <= result[k].total_cost

\* C2: the drivers come in descending order of total_cost and each
\* cumulative_percentage is the running sum of percentage in that order; two
\* groups with totals 700 and 300 give percentages 70 and 30 and cumulative
\* percentages 70 then 100, whatever the groups are called.
C2_RankedWithRunningCumulative ==
    DriversCalled =>
        /\ \A k \in 1..Len(result) :
              /\ (k > 1) => result[k - 1].total_cost >= result[k].total_cost
              /\ result[k].cumulative_percentage =
                     FAdd(IF k = 1 THEN Num(0) ELSE result[k - 1].cumulative_percentage,
                          result[k].percentage)
        /\ (/\ call.top_n >= 2
            /\ \E g, h \in GroupsOf(cost_data) :
                  /\ GroupsOf(cost_data) = {g, h}
                  /\ GroupCost(cost_data, g) = 700
                  /\ GroupCost(cost_data, h) = 300)
           => /\ Len(result) = 2
              /\ <<result[1].percentage, result[2].percentage>> = <<Num(70), Num(30)>>
              /\ <<result[1].cumulative_percentage, result[2].cumulative_percentage>>
                     = <<Num(70), Num(100)>>

\* C3: every group gets its own cost_per_unit, total_cost / total_usage when
\* its total_usage is not 0 and 0 when it is; a group with zero usage does
\* not make the call fail or change the other groups.
C3_CostPerUnitPerGroup ==
    (DriversCalled /\ call.top_n >= Cardinality(GroupsOf(cost_data))) =>
        \A g \in GroupsOf(cost_data) :
            \E k \in 1..Len(result) :
                /\ <<result[k].service, result[k].region>> = g
                /\ result[k].cost_per_unit =
                       IF GroupUsage(cost_data, g) # 0
                       THEN Frac(GroupCost(cost_data, g), GroupUsage(cost_data, g))
                       ELSE Num(0)

----------------------------------------------------------------------------
(* DataProcessor.calculate_trends *)

DefaultService == "EC2"

DefaultRegion == "us-east-1"

SeriesRows(costs) == {Row(d, DefaultService, DefaultRegion, c, 1) : d \in 0..MaxDate, c \in costs}

\* daily_costs.rolling(window=window).mean().iloc[-1]: min_periods defaults to
\* the window, so the mean is NaN until `window` observations are in it
RollingMeanLast(daily, window) ==
    LET n == Len(daily)
    IN  IF n < window THEN NaN
        ELSE Frac(SumSeq([k \in 1..window |-> daily[n - window + k].cost]), window)

\* line 72
TrendGe(first, last) == IF last >= first THEN "increasing" ELSE "decreasing"

TrendOf(first, last) == IF last > first THEN "increasing" ELSE "decreasing"

\* lines 75-76
PctChange(first, last) ==
    IF first # 0 THEN FMul(Frac(last - first, first), Num(100)) ELSE Num(0)

SeqMin(s) == CHOOSE x \in Range(s) : \A y \in Range(s) : x <= y

SeqMax(s) == CHOOSE x \in Range(s) : \A y \in Range(s) : x >= y

EmptyDict == [empty |-> TRUE]

SeriesColumns == {"date", "cost"}

calculate_trends(df, window) ==
    IF df = <<>> THEN EmptyDict
    ELSE IF MissingColumn(df, SeriesColumns) THEN EmptyDict   \* except Exception: return {}
    ELSE LET daily_costs == DailyCosts(df)
             costs == [k \in 1..Len(daily_costs) |-> daily_costs[k].cost]
             first == costs[1]
             last == costs[Len(costs)]
         IN  [empty |-> FALSE,
              trend |-> TrendOf(first, last),
              percentage_change |-> PctChange(first, last),
              current_daily_cost |-> Num(last),
              average_daily_cost |-> RollingMeanLast(daily_costs, window),
              min_daily_cost |-> Num(SeqMin(costs)),
              max_daily_cost |-> Num(SeqMax(costs))]

RECURSIVE ConcatByDate(_, _)
\* the rows of df taken date by date
ConcatByDate(df, dates) ==
    IF dates = <<>> THEN <<>>
    ELSE SelectSeq(df, LAMBDA r : r.date = Head(dates)) \o ConcatByDate(df, Tail(dates))

\* cost_data.sort_values("date", inplace=True)
SortValuesInPlace(df) ==
    IF MissingColumn(df, {"date"}) THEN df
    ELSE ConcatByDate(df, SortedInts({df[i].date : i \in 1..Len(df)}))

\* the exception raised inside the try block of calculate_trends
TrendsError(df) == IF MissingColumn(df, SeriesColumns) THEN "KeyError" ELSE "none"

\* calculate_trends, had it sorted the caller's frame in place before grouping
CallCalculateTrendsInPlace ==
    \E window \in 1..MaxWindow :
        /\ call' = [op |-> "calculate_trends", window |-> window]
        /\ result' = calculate_trends(cost_data, window)
        /\ raised' = Except(TrendsError(cost_data))
        /\ cost_data' = SortValuesInPlace(cost_data)
        /\ UNCHANGED <<sklearn_installed, raw_data, scenarios, now, prev, sync_history, chatbot>>

CallCalculateTrends ==
    \E window \in 1..MaxWindow :
        /\ call' = [op |-> "calculate_trends", window |-> window]
        /\ result' = calculate_trends(cost_data, window)
        /\ raised' = Except(TrendsError(cost_data))
        /\ UNCHANGED inputs

InitTrends ==
    /\ cost_data \in Frames(SeriesRows(TrendCosts), MaxRows)
    /\ sklearn_installed = TRUE
    /\ Idle

NextTrends == CallCalculateTrends

SpecTrends == InitTrends /\ [][NextTrends]_vars

(* Claims on calculate_trends *)

DatesOf(df) == {df[i].date : i \in 1..Len(df)}

CostOn(df, d) == LET on_d(r) == r.date = d IN SumOver(df, on_d, RowCost)

FirstDate(df) == CHOOSE d \in DatesOf(df) : \A e \in DatesOf(df) : d <= e

LastDate(df) == CHOOSE d \in DatesOf(df) : \A e \in DatesOf(df) : d >= e

TrendsCalled == call.op = "calculate_trends" /\ cost_data # <<>>

\* C4: for a non-empty series calculate_trends returns trend and
\* percentage_change; trend is "increasing" exactly when the last daily cost is
\* greater than the first and "decreasing" otherwise, and percentage_change is
\* (last - first) / first * 100, or 0 when first is 0.
C4_TrendAndPercentageChange ==
    TrendsCalled =>
        LET first == CostOn(cost_data, FirstDate(cost_data))
            last == CostOn(cost_data, LastDate(cost_data))
            pct == result.percentage_change
        IN  /\ ~result.empty
            /\ result.trend \in {"increasing", "decreasing"}
            /\ (result.trend = "increasing") <=> (last > first)
            /\ ~pct.nan
            /\ IF first = 0 THEN pct.n = 0
               ELSE pct.n * first = 100 * (last - first) * pct.d

\* a series over three days that starts at 100 and ends at 80, as the claim's
\* [100, 90, 80] does: "decreasing" and -20
C4_Witness ==
    /\ TrendsCalled
    /\ Len(DailyCosts(cost_data)) = 3
    /\ DailyCosts(cost_data)[1].cost = 100
    /\ DailyCosts(cost_data)[3].cost = 80
    /\ result.trend = "decreasing"
    /\ result.percentage_change = Num(-20)

\* C5: with fewer distinct dates than the window, average_daily_cost is a
\* defined number, the mean of all the daily costs available, never NaN.
C5_AverageDefinedOnShortSeries ==
    (TrendsCalled /\ Cardinality(DatesOf(cost_data)) < call.window) =>
        LET avg == result.average_daily_cost
            total == SumSeq([i \in 1..Len(cost_data) |-> cost_data[i].cost])
        IN  /\ ~avg.nan
            /\ avg.n * Cardinality(DatesOf(cost_data)) = total * avg.d

----------------------------------------------------------------------------
(* AdvancedAnalytics.forecast_with_confidence_intervals *)

RECURSIVE ISqrtIn(_, _, _)
\* the largest r in lo..hi with r * r <= k
ISqrtIn(k, lo, hi) ==
    IF lo >= hi THEN lo
    ELSE LET mid == (lo + hi + 1) \div 2
         IN  IF mid * mid <= k THEN ISqrtIn(k, mid, hi) ELSE ISqrtIn(k, lo, mid - 1)

\* np.sqrt / np.std's root, to two decimals
Sqrt(q) ==
    IF q.nan \/ q.n < 0 THEN NaN
    ELSE LET k == (q.n * 10000) \div q.d IN Frac(ISqrtIn(k, 0, Min(k, 40000)), 100)

\* Timestamp.isoformat(): the calendar date of a day ordinal; ordinal 0 is
\* 2024-02-27, so the days explored run over the end of a leap February
EpochDate == [year |-> 2024, month |-> 2, day |-> 27]

IsLeap(y) == (y % 4 = 0 /\ y % 100 # 0) \/ y % 400 = 0

DaysInMonth(y, m) ==
    IF m = 2 THEN (IF IsLeap(y) THEN 29 ELSE 28)
    ELSE IF m \in {4, 6, 9, 11} THEN 30 ELSE 31

RECURSIVE PlusDays(_, _)
PlusDays(ymd, k) ==
    IF k = 0 THEN ymd
    ELSE IF ymd.day < DaysInMonth(ymd.year, ymd.month)
         THEN PlusDays([ymd EXCEPT !.day = @ + 1], k - 1)
    ELSE IF ymd.month < 12
         THEN PlusDays([ymd EXCEPT !.month = @ + 1, !.day = 1], k - 1)
    ELSE PlusDays([year |-> ymd.year + 1, month |-> 1, day |-> 1], k - 1)

isoformat(date) == PlusDays(EpochDate, date)

\* np.polyfit(np.arange(n), y, 1): the least-squares line through (k - 1, y[k]).
\* polyfit divides each column of the Vandermonde matrix by its norm; for n = 1
\* the x column is [0], its norm 0, the scaled column NaN, and lstsq raises
\* LinAlgError ("SVD did not converge in Linear Least Squares")
PolyFitNoRaise(y) ==
    LET n == Len(y)
        Sx == SumSeq([k \in 1..n |-> k - 1])
        Sxx == SumSeq([k \in 1..n |-> (k - 1) * (k - 1)])
        Sy == SumSeq(y)
        Sxy == SumSeq([k \in 1..n |-> (k - 1) * y[k]])
        slope == Frac(n * Sxy - Sx * Sy, n * Sxx - Sx * Sx)
    IN  [raised |-> FALSE, slope |-> slope,
         intercept |-> FDiv(FSub(Num(Sy), FMul(slope, Num(Sx))), Num(n))]

PolyFit(y) ==
    LET n == Len(y)
        Sx == SumSeq([k \in 1..n |-> k - 1])
        Sxx == SumSeq([k \in 1..n |-> (k - 1) * (k - 1)])
        Sy == SumSeq(y)
        Sxy == SumSeq([k \in 1..n |-> (k - 1) * y[k]])
        slope == Frac(n * Sxy - Sx * Sy, n * Sxx - Sx * Sx)
    IN  IF Sxx = 0 THEN [raised |-> TRUE, slope |-> NaN, intercept |-> NaN]
        ELSE [raised |-> FALSE, slope |-> slope,
              intercept |-> FDiv(FSub(Num(Sy), FMul(slope, Num(Sx))), Num(n))]

\* np.poly1d(coeffs)(x)
PolyVal(fit, x) == FAdd(FMul(fit.slope, Num(x)), fit.intercept)

RECURSIVE FSum(_)
FSum(s) == IF s = <<>> THEN Num(0) ELSE FAdd(Head(s), FSum(Tail(s)))

\* np.std(a): the population standard deviation
NpStd(a) ==
    LET n == Len(a)
        mean == FDiv(FSum(a), Num(n))
        sq == [k \in 1..n |-> FMul(FSub(a[k], mean), FSub(a[k], mean))]
    IN  Sqrt(FDiv(FSum(sq), Num(n)))

\* stats.norm.ppf((1 + confidence) / 2), to two decimals
NormPpf(confidence) ==
    CASE confidence = 80 -> Frac(128, 100)
      [] confidence = 90 -> Frac(164, 100)
      [] confidence = 95 -> Frac(196, 100)
      [] confidence = 99 -> Frac(258, 100)

\* line 194
MarginOfError(z_score, residual_std, n) ==
    FMul(FMul(z_score, residual_std), Sqrt(FAdd(Num(1), Frac(1, n))))

\* Python's max(0, x): x when x > 0 holds, else 0 (also for NaN)
PyMax0(x) == IF FGt(x, Num(0)) THEN x ELSE Num(0)

\* line 195
LowerBoundUnclamped(forecast_value, margin_of_error) ==
    FSub(forecast_value, margin_of_error)

LowerBound(forecast_value, margin_of_error) ==
    PyMax0(FSub(forecast_value, margin_of_error))

\* line 196
UpperBound(forecast_value, margin_of_error) == FAdd(forecast_value, margin_of_error)

\* line 190
ForecastDateOffByOne(last_date, i) == last_date + i - 1

ForecastDate(last_date, i) == last_date + i

\* forecast_with_confidence_intervals with a margin that widens with the
\* horizon: line 194 times i
forecast_with_widening_intervals(df, days_ahead, confidence) ==
    IF df = <<>> THEN <<>>
    ELSE IF MissingColumn(df, SeriesColumns) THEN <<>>
    ELSE LET daily_costs == DailyCosts(df)
             n == Len(daily_costs)
             y == [k \in 1..n |-> daily_costs[k].cost]
             poly == PolyFit(y)
         IN  IF poly.raised THEN <<>>
             ELSE LET residuals == [k \in 1..n |-> FSub(Num(y[k]), PolyVal(poly, k - 1))]
                      residual_std == NpStd(residuals)
                      z_score == NormPpf(confidence)
                      last_date == daily_costs[n].date
                  IN  [i \in 1..days_ahead |->
                          LET forecast_value == PolyVal(poly, n + i - 1)
                              margin_of_error ==
                                  FMul(Num(i), MarginOfError(z_score, residual_std, n))
                          IN  [date |-> isoformat(ForecastDate(last_date, i)),
                               forecasted_cost |-> forecast_value,
                               lower_bound |-> LowerBound(forecast_value, margin_of_error),
                               upper_bound |-> UpperBound(forecast_value, margin_of_error),
                               confidence |-> confidence]]

forecast_with_confidence_intervals(df, days_ahead, confidence) ==
    IF df = <<>> THEN <<>>
    ELSE IF MissingColumn(df, SeriesColumns) THEN <<>>   \* except Exception: return []
    ELSE LET daily_costs == DailyCosts(df)
             n == Len(daily_costs)
             y == [k \in 1..n |-> daily_costs[k].cost]
             poly == PolyFit(y)
         IN  IF poly.raised THEN <<>>      \* except Exception: return []
             ELSE LET residuals == [k \in 1..n |-> FSub(Num(y[k]), PolyVal(poly, k - 1))]
                      residual_std == NpStd(residuals)
                      z_score == NormPpf(confidence)
                      last_date == daily_costs[n].date
                  IN  [i \in 1..days_ahead |->
                          LET forecast_value == PolyVal(poly, n + i - 1)
                              margin_of_error == MarginOfError(z_score, residual_std, n)
                          IN  [date |-> isoformat(ForecastDate(last_date, i)),
                               forecasted_cost |-> forecast_value,
                               lower_bound |-> LowerBound(forecast_value, margin_of_error),
                               upper_bound |-> UpperBound(forecast_value, margin_of_error),
                               confidence |-> confidence]]

\* the exception raised inside the try block of
\* forecast_with_confidence_intervals
ForecastError(df) ==
    IF df = <<>> THEN "none"
    ELSE IF MissingColumn(df, SeriesColumns) THEN "KeyError"
    ELSE IF PolyFit([k \in 1..Len(DailyCosts(df)) |-> DailyCosts(df)[k].cost]).raised
         THEN "LinAlgError"
    ELSE "none"

CallForecast ==
    \E days_ahead \in 0..MaxDaysAhead, confidence \in Confidences :
        /\ call' = [op |-> "forecast_with_confidence_intervals",
                    days_ahead |-> days_ahead, confidence |-> confidence]
        /\ result' = forecast_with_confidence_intervals(cost_data, days_ahead, confidence)
        /\ raised' = Except(ForecastError(cost_data))
        /\ UNCHANGED inputs

InitForecast ==
    /\ cost_data \in Frames(SeriesRows(ForecastCosts), MaxRows)
    /\ sklearn_installed = TRUE
    /\ Idle

NextForecast == CallForecast

SpecForecast == InitForecast /\ [][NextForecast]_vars

(* Claims on forecast_with_confidence_intervals *)

ForecastCalled == call.op = "forecast_with_confidence_intervals"

\* C6: with at least 2 distinct dates the forecast has exactly days_ahead
\* entries, dated last_date + 1, last_date + 2, ..., last_date + days_ahead in
\* that order, whatever gaps the series has.
C6_OneEntryPerFutureDay ==
    (ForecastCalled /\ Cardinality(DatesOf(cost_data)) >= 2) =>
        /\ Len(result) = call.days_ahead
        /\ \A k \in 1..Len(result) :
              result[k].date = PlusDays(isoformat(LastDate(cost_data)), k)

\* a series with a gap (days 0 and 2 only), forecast over two days
C6_Witness ==
    /\ ForecastCalled
    /\ DatesOf(cost_data) = {0, 2}
    /\ call.days_ahead = 2
    /\ Len(result) = 2
    /\ result[1].date = [year |-> 2024, month |-> 3, day |-> 1]
    /\ result[2].date = [year |-> 2024, month |-> 3, day |-> 2]

\* C7: with margin = upper_bound - forecasted_cost, every entry has a margin
\* that is not negative and lower_bound = max(0, forecasted_cost - margin);
\* lower_bound is never negative.
C7_BoundsAroundForecast ==
    ForecastCalled =>
        \A k \in 1..Len(result) :
            LET e == result[k]
                margin == FSub(e.upper_bound, e.forecasted_cost)
                low == FSub(e.forecasted_cost, margin)
            IN  /\ ~e.lower_bound.nan /\ ~e.upper_bound.nan
                /\ margin.n >= 0
                /\ e.lower_bound.n >= 0
                /\ e.lower_bound = IF low.n > 0 THEN low ELSE Num(0)

\* an entry on which the clamp acts: negative forecast, margin above zero
C7_Witness ==
    /\ ForecastCalled
    /\ \E k \in 1..Len(result) :
          /\ result[k].forecasted_cost.n < 0
          /\ result[k].upper_bound # result[k].forecasted_cost
          /\ result[k].lower_bound = Num(0)

\* C8: with fewer than 2 distinct dates the forecast is the empty list.
C8_NoForecastBelowTwoDates ==
    (ForecastCalled /\ Cardinality(DatesOf(cost_data)) < 2) => result = <<>>

\* one date, some rows, a forecast asked for two days
C8_Witness ==
    /\ ForecastCalled
    /\ Cardinality(DatesOf(cost_data)) = 1
    /\ call.days_ahead = 2
    /\ result = <<>>

----------------------------------------------------------------------------
(* AdvancedAnalytics.detect_cost_anomalies_advanced *)

RECURSIVE SortedSeq(_)
\* the values of a sequence of integers in increasing order, repeats kept
SortedSeq(s) ==
    IF s = <<>> THEN <<>>
    ELSE LET i == CHOOSE i \in 1..Len(s) : \A j \in 1..Len(s) : s[i] <= s[j]
         IN  <<s[i]>> \o SortedSeq([k \in 1..(Len(s) - 1) |->
                                       IF k < i THEN s[k] ELSE s[k + 1]])

\* np.percentile(a, q): linear interpolation between the two closest ranks
Percentile(a, q) ==
    LET sorted == SortedSeq(a)
        n == Len(a)
        lo == ((n - 1) * q) \div 100
        rest == ((n - 1) * q) % 100
    IN  IF rest = 0 THEN Num(sorted[lo + 1])
        ELSE FAdd(Num(sorted[lo + 1]),
                  FMul(Frac(rest, 100), Num(sorted[lo + 2] - sorted[lo + 1])))

\* the positions whose score |x - mean| / std is 3 exactly.  The floating
\* point quotient of such a position is 3.0 or the next float above it (nine
\* days at 0 and one at 7 give 3.0000000000000004): rounding decides
ZscoreTies(costs) ==
    LET n == Len(costs)
        S == SumSeq(costs)
        SS == SumSeq([k \in 1..n |-> costs[k] * costs[k]])
        nnvar == n * SS - S * S
    IN  {k \in 1..n : nnvar # 0 /\ (n * costs[k] - S) * (n * costs[k] - S) = 9 * nnvar}

\* lines 47-49 without np.abs: only the costs above the mean are scored
ZscoreIndicesAboveMean(costs, lifted) ==
    LET n == Len(costs)
        S == SumSeq(costs)
        SS == SumSeq([k \in 1..n |-> costs[k] * costs[k]])
        nnvar == n * SS - S * S
    IN  {k \in 1..n : /\ nnvar # 0
                      /\ n * costs[k] > S
                      /\ (n * costs[k] - S) * (n * costs[k] - S) > 9 * nnvar}

\* lines 47-49 with threshold = 2
ZscoreIndicesThresholdTwo(costs, lifted) ==
    LET n == Len(costs)
        S == SumSeq(costs)
        SS == SumSeq([k \in 1..n |-> costs[k] * costs[k]])
        nnvar == n * SS - S * S
    IN  {k \in 1..n : nnvar # 0 /\ (n * costs[k] - S) * (n * costs[k] - S) > 4 * nnvar}

\* lines 47-49: np.abs(stats.zscore(costs)) > 3, with the population mean and
\* standard deviation; a zero deviation gives NaN scores, which exceed nothing.
\* |x - mean| / std > 3 is compared through the squares, (x - mean)^2 > 9 var;
\* lifted holds the positions of score 3 that rounding lifts above 3
ZscoreIndices(costs, lifted) ==
    LET n == Len(costs)
        S == SumSeq(costs)
        SS == SumSeq([k \in 1..n |-> costs[k] * costs[k]])
        nnvar == n * SS - S * S
    IN  {k \in 1..n : nnvar # 0 /\ (n * costs[k] - S) * (n * costs[k] - S) > 9 * nnvar}
            \cup (lifted \cap ZscoreTies(costs))

\* lines 54-56 with fences three IQR away from the quartiles
FenceThreeIqr(Q1, Q3) ==
    LET IQR == FSub(Q3, Q1)
    IN  [lower_bound |-> FSub(Q1, FMul(Num(3), IQR)),
         upper_bound |-> FAdd(Q3, FMul(Num(3), IQR))]

\* lines 54-56
Fence(Q1, Q3) ==
    LET IQR == FSub(Q3, Q1)
    IN  [lower_bound |-> FSub(Q1, FMul(Frac(3, 2), IQR)),
         upper_bound |-> FAdd(Q3, FMul(Frac(3, 2), IQR))]

\* lines 52-57
IqrIndicesNotStrict(costs) ==
    LET f == Fence(Percentile(costs, 25), Percentile(costs, 75))
    IN  {k \in 1..Len(costs) :
            ~FGt(Num(costs[k]), f.lower_bound) \/ ~FLt(Num(costs[k]), f.upper_bound)}

IqrIndices(costs) ==
    LET f == Fence(Percentile(costs, 25), Percentile(costs, 75))
    IN  {k \in 1..Len(costs) :
            FLt(Num(costs[k]), f.lower_bound) \/ FGt(Num(costs[k]), f.upper_bound)}

\* lines 67-72, the copy of the IQR rule under `except ImportError`
FallbackIqrIndicesUpperOnly(costs) ==
    LET f == Fence(Percentile(costs, 25), Percentile(costs, 75))
    IN  {k \in 1..Len(costs) : FGt(Num(costs[k]), f.upper_bound)}

FallbackIqrIndices(costs) ==
    LET f == Fence(Percentile(costs, 25), Percentile(costs, 75))
    IN  {k \in 1..Len(costs) :
            FLt(Num(costs[k]), f.lower_bound) \/ FGt(Num(costs[k]), f.upper_bound)}

\* lines 62-64: IsolationForest(contamination, random_state=42).fit_predict.
\* The forest scores every sample by its value (score[v], lower is more
\* abnormal), sets its offset to the contamination percentile of the scores
\* and predicts -1 for the samples scoring below the offset
IsolationForestIndices(costs, contamination, score) ==
    LET scores == [k \in 1..Len(costs) |-> score[costs[k]]]
        offset == Percentile(scores, contamination)
    IN  {k \in 1..Len(costs) : FLt(Num(scores[k]), offset)}

\* line 81
SeverityTwiceMean(cost, costs) ==
    IF FGt(Num(cost), FMul(Frac(SumSeq(costs), Len(costs)), Num(2)))
    THEN "high" ELSE "medium"

Severity(cost, costs) ==
    IF FGt(Num(cost), FMul(Frac(SumSeq(costs), Len(costs)), Frac(3, 2)))
    THEN "high" ELSE "medium"

detect_cost_anomalies_advanced(df, method, contamination, installed, score, lifted) ==
    IF df = <<>> THEN <<>>
    ELSE IF MissingColumn(df, SeriesColumns) THEN <<>>   \* except Exception: return []
    ELSE LET daily_costs == DailyCosts(df)
             costs == [k \in 1..Len(daily_costs) |-> daily_costs[k].cost]
             anomaly_indices ==
                 IF method = "zscore" THEN ZscoreIndices(costs, lifted)
                 ELSE IF method = "iqr" THEN IqrIndices(costs)
                 ELSE IF installed THEN IsolationForestIndices(costs, contamination, score)
                 ELSE FallbackIqrIndices(costs)
             idx == SortedInts(anomaly_indices)
         IN  [a \in 1..Len(idx) |->
                 [date |-> isoformat(daily_costs[idx[a]].date),
                  cost |-> Num(costs[idx[a]]),
                  method |-> method,
                  severity |-> Severity(costs[idx[a]], costs)]]

DailyValues(df) ==
    IF MissingColumn(df, SeriesColumns) THEN {}
    ELSE {DailyCosts(df)[k].cost : k \in 1..Len(DailyCosts(df))}

\* daily_costs.values
DailySeries(df) ==
    IF MissingColumn(df, SeriesColumns) THEN <<>>
    ELSE [k \in 1..Len(DailyCosts(df)) |-> DailyCosts(df)[k].cost]

\* the exception raised inside the try block of detect_cost_anomalies_advanced
\* (the ImportError of a missing scikit-learn is handled inside it)
AnomaliesError(df) == IF MissingColumn(df, SeriesColumns) THEN "KeyError" ELSE "none"

CallDetectAnomalies ==
    \E method \in Methods \cup UnknownMethods, contamination \in Contaminations,
       score \in [DailyValues(cost_data) -> ScoreLevels],
       lifted \in SUBSET ZscoreTies(DailySeries(cost_data)) :
        /\ call' = [op |-> "detect_cost_anomalies_advanced", method |-> method,
                    contamination |-> contamination]
        /\ result' = detect_cost_anomalies_advanced(cost_data, method, contamination,
                                                    sklearn_installed, score, lifted)
        /\ raised' = Except(AnomaliesError(cost_data))
        /\ UNCHANGED inputs

\* one observation a day, on any set of the days 0..MaxAnomalyDate
DailyFrames ==
    UNION {{[k \in 1..Len(SortedInts(D)) |->
                Row(SortedInts(D)[k], DefaultService, DefaultRegion, c[SortedInts(D)[k]], 1)] :
             c \in [D -> AnomalyCosts]} : D \in SUBSET (0..MaxAnomalyDate)}

InitAnomalies ==
    /\ cost_data \in DailyFrames
    /\ sklearn_installed \in BOOLEAN
    /\ Idle

NextAnomalies == CallDetectAnomalies

SpecAnomalies == InitAnomalies /\ [][NextAnomalies]_vars

(* Claims on detect_cost_anomalies_advanced *)

AnomaliesCalled == call.op = "detect_cost_anomalies_advanced"

ConstantSeries(df) ==
    /\ df # <<>>
    /\ \A d, e \in DatesOf(df) : CostOn(df, d) = CostOn(df, e)

\* C9: on a series whose daily cost is constant the anomaly list is empty
\* under each of the methods zscore, iqr and isolation_forest.
C9_ConstantSeriesHasNoAnomaly ==
    (AnomaliesCalled /\ call.method \in Methods /\ ConstantSeries(cost_data))
        => result = <<>>

\* a constant series over every day, scored by an installed isolation forest
C9_Witness ==
    /\ AnomaliesCalled
    /\ call.method = "isolation_forest"
    /\ sklearn_installed
    /\ ConstantSeries(cost_data)
    /\ \A i \in 1..Len(cost_data) : cost_data[i].cost = 100
    /\ DatesOf(cost_data) = 0..MaxAnomalyDate
    /\ result = <<>>

Anomaly(a) == [date |-> a.date, cost |-> a.cost, severity |-> a.severity]

\* the scores play no part in the iqr method
NoScore == [v \in {} |-> 1]

\* C10: when scikit-learn cannot be imported, method isolation_forest returns
\* the anomalies (dates, costs, severities, order) that method iqr returns on
\* the same data.
C10_FallbackEqualsIqr ==
    (AnomaliesCalled /\ call.method = "isolation_forest" /\ ~sklearn_installed) =>
        LET iqr == detect_cost_anomalies_advanced(cost_data, "iqr", call.contamination,
                                                  sklearn_installed, NoScore, {})
        IN  /\ Len(result) = Len(iqr)
            /\ \A k \in 1..Len(result) : Anomaly(result[k]) = Anomaly(iqr[k])

\* the fallback flags a day below the lower fence
C10_Witness ==
    /\ AnomaliesCalled
    /\ call.method = "isolation_forest"
    /\ ~sklearn_installed
    /\ Len(result) = 1
    /\ result[1].severity = "medium"

\* C11: every anomaly returned is "high" exactly when its daily cost is
\* greater than 1.5 times the mean of the daily series and "medium" otherwise,
\* under every method.
C11_SeverityByOneAndAHalfMean ==
    AnomaliesCalled =>
        LET days == Cardinality(DatesOf(cost_data))
            total == SumSeq([i \in 1..Len(cost_data) |-> cost_data[i].cost])
        IN  \A k \in 1..Len(result) :
                /\ result[k].severity \in {"high", "medium"}
                /\ (result[k].severity = "high")
                       <=> (2 * result[k].cost.n * days > 3 * total * result[k].cost.d)

\* a flagged day between 1.5 and 2 times the mean, reported high
C11_Witness ==
    /\ AnomaliesCalled
    /\ \E k \in 1..Len(result) :
          /\ result[k].severity = "high"
          /\ result[k].cost.n * Cardinality(DatesOf(cost_data))
                 <= 2 * SumSeq([i \in 1..Len(cost_data) |-> cost_data[i].cost])

\* the rule that selects the anomalies of a call: the branch of lines 46-72
\* taken, with the IQR rule in place of an isolation forest that cannot be
\* imported
RuleApplied(method, installed) ==
    IF method \in {"zscore", "iqr"} THEN method
    ELSE IF installed THEN "isolation_forest"
    ELSE "iqr"

\* C28: in every anomaly returned the method field names the detection rule
\* that selected the point and is one of zscore, iqr, isolation_forest, also
\* when an isolation_forest request fell back to the IQR rule and when the
\* caller passed an unrecognised method name.
C28_MethodFieldNamesRuleApplied ==
    AnomaliesCalled =>
        \A k \in 1..Len(result) :
            /\ result[k].method \in Methods
            /\ result[k].method = RuleApplied(call.method, sklearn_installed)

----------------------------------------------------------------------------
(* AdvancedAnalytics.calculate_cost_elasticity *)

\* cost_data[cost_data["service"] == service]
FilterService(df, service) == SelectSeq(df, LAMBDA r : r.service = service)

\* data.groupby("date")["usage"].sum()
DailyUsage(df) ==
    LET dates == SortedInts({df[i].date : i \in 1..Len(df)})
    IN  [k \in 1..Len(dates) |->
            LET on_date(r) == r.date = dates[k]
            IN  SumOver(df, on_date, RowUsage)]

\* Series.pct_change().dropna(): (x[k+1] - x[k]) / x[k]; the first entry, NaN,
\* is dropped.  A zero x[k] gives inf (or NaN for 0/0), which the fractions
\* here do not hold: the frames explored have positive costs and usages
PctChange1(x) == [k \in 1..(Len(x) - 1) |-> Frac(x[k + 1] - x[k], x[k])]

\* Series.mean()
FMean(s) == FDiv(FSum(s), Num(Len(s)))

\* Series.std(): the sample standard deviation (ddof = 1), NaN below 2 values
SampleStd(s) ==
    IF Len(s) < 2 THEN NaN
    ELSE LET mean == FMean(s)
             sq == [k \in 1..Len(s) |-> FMul(FSub(s[k], mean), FSub(s[k], mean))]
         IN  Sqrt(FDiv(FSum(sq), Num(Len(s) - 1)))

\* Series.corr(): Pearson's r; NaN below 2 points or without variance
Corr(x, y) ==
    LET n == Len(x)
        sx == SumSeq(x)
        sy == SumSeq(y)
        cxy == n * SumSeq([k \in 1..n |-> x[k] * y[k]]) - sx * sy
        cxx == n * SumSeq([k \in 1..n |-> x[k] * x[k]]) - sx * sx
        cyy == n * SumSeq([k \in 1..n |-> y[k] * y[k]]) - sy * sy
    IN  IF n < 2 \/ cxx = 0 \/ cyy = 0 THEN NaN
        ELSE FDiv(Num(cxy), Sqrt(Num(cxx * cyy)))

\* lines 127-130
Elasticity(cost_pct_change, usage_pct_change) ==
    IF Len(cost_pct_change) > 0 /\ Len(usage_pct_change) > 0
    THEN (IF FMean(usage_pct_change) # Num(0)
          THEN FDiv(FMean(cost_pct_change), FMean(usage_pct_change))
          ELSE Num(0))
    ELSE Num(0)

ElasticityColumns(service) ==
    {"date", "cost", "usage"} \cup (IF service # NoService THEN {"service"} ELSE {})

calculate_cost_elasticity(df, service) ==
    IF df = <<>> THEN EmptyDict
    ELSE IF MissingColumn(df, ElasticityColumns(service)) THEN EmptyDict   \* except
    ELSE LET data == IF service # NoService THEN FilterService(df, service) ELSE df
         IN  IF data = <<>> THEN EmptyDict
             ELSE LET daily == DailyCosts(data)
                      daily_costs == [k \in 1..Len(daily) |-> daily[k].cost]
                      daily_usage == DailyUsage(data)
                      cost_pct_change == PctChange1(daily_costs)
                      usage_pct_change == PctChange1(daily_usage)
                  IN  [empty |-> FALSE,
                       elasticity |-> Elasticity(cost_pct_change, usage_pct_change),
                       cost_volatility |-> SampleStd(cost_pct_change),
                       usage_volatility |-> SampleStd(usage_pct_change),
                       correlation |-> Corr(daily_costs, daily_usage),
                       service |-> IF service # NoService THEN service ELSE "all"]

\* the exception raised inside the try block of calculate_cost_elasticity
ElasticityError(df, service) ==
    IF MissingColumn(df, ElasticityColumns(service)) THEN "KeyError" ELSE "none"

CallCalculateCostElasticity ==
    \E service \in {NoService} \cup Range(Services) :
        /\ call' = [op |-> "calculate_cost_elasticity", service |-> service]
        /\ result' = calculate_cost_elasticity(cost_data, service)
        /\ raised' = Except(ElasticityError(cost_data, service))
        /\ UNCHANGED inputs

ElasticityRows ==
    {Row(d, Services[s], DefaultRegion, c, u) :
        d \in 0..MaxDate, s \in 1..Len(Services),
        c \in ElasticityCosts, u \in ElasticityUsages}

InitElasticity ==
    /\ cost_data \in Frames(ElasticityRows, MaxRows)
    /\ sklearn_installed = TRUE
    /\ Idle

NextElasticity == CallCalculateCostElasticity

SpecElasticity == InitElasticity /\ [][NextElasticity]_vars

(* Claims on calculate_cost_elasticity *)

ElasticityCalled == call.op = "calculate_cost_elasticity"

\* the dates of the rows the call analyses: all rows, or those of the service
AnalysedDates(df, service) ==
    {df[i].date : i \in {j \in 1..Len(df) : service = NoService \/ df[j].service = service}}

\* C12: calculate_cost_elasticity returns {} whenever the data it analyses,
\* after the optional service filter, covers fewer than 2 distinct dates.
C12_NoElasticityBelowTwoDates ==
    (ElasticityCalled /\ Cardinality(AnalysedDates(cost_data, call.service)) < 2)
        => result.empty

----------------------------------------------------------------------------
(* AdvancedAnalytics.calculate_roi_for_optimization *)

\* float('inf')
Inf == [nan |-> FALSE, n |-> 1, d |-> 0]

\* None
None == [is_none |-> TRUE, value |-> Num(0)]

Some(x) == [is_none |-> FALSE, value |-> x]

\* line 291, with the guard of the spec's wording (implementation_cost != 0)
RoiNonZeroGuard(net_benefit, implementation_cost) ==
    IF implementation_cost # 0 THEN Frac(net_benefit * 100, implementation_cost)
    ELSE Num(0)

\* line 291
Roi(net_benefit, implementation_cost) ==
    IF implementation_cost > 0 THEN Frac(net_benefit * 100, implementation_cost)
    ELSE Num(0)

\* lines 292-293, with the guard of the spec's wording (optimization_savings != 0)
PaybackPeriodNonZeroGuard(implementation_cost, optimization_savings) ==
    IF optimization_savings # 0 THEN Frac(implementation_cost, optimization_savings)
    ELSE Inf

\* lines 292-293
PaybackPeriod(implementation_cost, optimization_savings) ==
    IF optimization_savings > 0 THEN Frac(implementation_cost, optimization_savings)
    ELSE Inf

\* line 299
PaybackPeriodMonths(payback_period) ==
    IF payback_period # Inf THEN Some(payback_period) ELSE None

calculate_roi_for_optimization(current_cost, optimization_savings, implementation_cost, months) ==
    LET total_savings == optimization_savings * months
        net_benefit == total_savings - implementation_cost
        roi == Roi(net_benefit, implementation_cost)
        payback_period == PaybackPeriod(implementation_cost, optimization_savings)
    IN  [empty |-> FALSE,
         roi_percentage |-> roi,
         total_savings |-> Num(total_savings),
         net_benefit |-> Num(net_benefit),
         payback_period_months |-> PaybackPeriodMonths(payback_period),
         analysis_period_months |-> months,
         monthly_savings |-> Num(optimization_savings)]

CallCalculateRoi ==
    \E current_cost \in CurrentCosts, optimization_savings \in MonthlySavings,
       implementation_cost \in ImplementationCosts, months \in 0..MaxMonths :
        /\ call' = [op |-> "calculate_roi_for_optimization",
                    current_cost |-> current_cost,
                    optimization_savings |-> optimization_savings,
                    implementation_cost |-> implementation_cost,
                    months |-> months]
        /\ result' = calculate_roi_for_optimization(current_cost, optimization_savings,
                                                    implementation_cost, months)
        /\ raised' = Except("none")
        /\ UNCHANGED inputs

InitRoi ==
    /\ cost_data = <<>>
    /\ sklearn_installed = TRUE
    /\ Idle

NextRoi == CallCalculateRoi

SpecRoi == InitRoi /\ [][NextRoi]_vars

(* Claims on calculate_roi_for_optimization *)

RoiCalled == call.op = "calculate_roi_for_optimization"

\* total_savings and net_benefit as the claim states them
RoiTotals ==
    /\ ~result.empty
    /\ result.total_savings = Num(call.optimization_savings * call.months)
    /\ result.net_benefit
           = Num(call.optimization_savings * call.months - call.implementation_cost)

\* net_benefit / implementation_cost * 100
RoiFormula ==
    result.roi_percentage
        = Frac((call.optimization_savings * call.months - call.implementation_cost) * 100,
               call.implementation_cost)

\* C13, as stated: total_savings = savings * months, net_benefit = total_savings
\* - implementation_cost, roi_percentage = net_benefit / implementation_cost *
\* 100, and roi_percentage 0 when implementation_cost is 0.
C13_RoiZeroOnlyAtZeroCost ==
    RoiCalled =>
        /\ RoiTotals
        /\ IF call.implementation_cost = 0 THEN result.roi_percentage = Num(0)
           ELSE RoiFormula

\* C13, amended: total_savings = savings * months, net_benefit = total_savings
\* - implementation_cost, roi_percentage = net_benefit / implementation_cost *
\* 100 when implementation_cost is positive, and roi_percentage 0 when
\* implementation_cost is 0 or negative.
C13_RoiZeroAtNonPositiveCost ==
    RoiCalled =>
        /\ RoiTotals
        /\ IF call.implementation_cost <= 0 THEN result.roi_percentage = Num(0)
           ELSE RoiFormula

\* savings 200, implementation cost 500, 12 months: 2400, 1900, 380.0, 2.5
C13_Witness ==
    /\ RoiCalled
    /\ call.optimization_savings = 200
    /\ call.implementation_cost = 500
    /\ call.months = 12
    /\ result.total_savings = Num(2400)
    /\ result.net_benefit = Num(1900)
    /\ result.roi_percentage = Num(380)
    /\ result.payback_period_months = Some(Frac(5, 2))

\* C14, as stated: payback_period_months = implementation_cost / savings when
\* savings is non-zero, None when savings is 0, and never an infinity.
C14_PaybackNoneOnlyAtZeroSavings ==
    RoiCalled =>
        /\ result.payback_period_months.value # Inf
        /\ IF call.optimization_savings = 0 THEN result.payback_period_months = None
           ELSE result.payback_period_months
                    = Some(Frac(call.implementation_cost, call.optimization_savings))

\* C14, amended: payback_period_months = implementation_cost / savings when
\* savings is positive, None when savings is 0 or negative, and never positive
\* infinity (float("inf")).
C14_PaybackNoneAtNonPositiveSavings ==
    RoiCalled =>
        /\ result.payback_period_months.value # Inf
        /\ IF call.optimization_savings <= 0 THEN result.payback_period_months = None
           ELSE result.payback_period_months
                    = Some(Frac(call.implementation_cost, call.optimization_savings))

\* savings of -200 a month never pay back 500: None, not -2.5 and not infinity
C14_Witness ==
    /\ RoiCalled
    /\ call.optimization_savings = -200
    /\ call.implementation_cost = 500
    /\ result.payback_period_months = None

----------------------------------------------------------------------------
(* AdvancedAnalytics.compare_cost_scenarios *)

\* a key of a scenario dict: present with a value, or not in the dict
Present(v) == [present |-> TRUE, v |-> v]

MissingName == [present |-> FALSE, v |-> ""]

MissingCost == [present |-> FALSE, v |-> 0]

\* scenario.get("name"): None when the key is missing
NoName == [is_none |-> TRUE, value |-> ""]

Name(s) == [is_none |-> FALSE, value |-> s]

GetName(scenario) ==
    IF scenario.name.present THEN Name(scenario.name.v) ELSE NoName

\* scenario.get("name", "Unknown")
GetNameOrUnknown(scenario) ==
    IF scenario.name.present THEN scenario.name.v ELSE "Unknown"

\* scenario.get("cost", 0)
GetCost(scenario) == IF scenario.cost.present THEN scenario.cost.v ELSE 0

\* max(costs), taken where line 344 takes min(costs)
MinCostAsMax(costs) == SeqMax(costs)

\* min(costs)
MinCost(costs) == SeqMin(costs)

\* max(costs)
MaxCost(costs) == SeqMax(costs)

\* costs.index(v): the first position holding v
IndexOf(costs, v) ==
    CHOOSE i \in 1..Len(costs) : costs[i] = v /\ \A j \in 1..(i - 1) : costs[j] # v

\* compare_cost_scenarios without lines 322-323: the comparison as line 325
\* initialises it
compare_cost_scenarios_unguarded(scens) ==
    IF scens = <<>>
    THEN [empty |-> FALSE, scenarios |-> <<>>, best_scenario |-> NoName,
          worst_scenario |-> NoName, average_cost |-> Num(0), cost_range |-> Num(0)]
    ELSE LET costs == [i \in 1..Len(scens) |-> GetCost(scens[i])]
             min_cost == MinCost(costs)
             max_cost == MaxCost(costs)
         IN  [empty |-> FALSE,
              scenarios |-> [i \in 1..Len(scens) |->
                                [name |-> GetNameOrUnknown(scens[i]),
                                 cost |-> Num(costs[i]),
                                 description |-> ""]],
              best_scenario |-> GetName(scens[IndexOf(costs, min_cost)]),
              worst_scenario |-> GetName(scens[IndexOf(costs, max_cost)]),
              average_cost |-> Frac(SumSeq(costs), Len(costs)),
              cost_range |-> Num(max_cost - min_cost),
              savings_potential |-> Num(max_cost - min_cost)]

compare_cost_scenarios(scens) ==
    IF scens = <<>> THEN EmptyDict
    ELSE LET costs == [i \in 1..Len(scens) |-> GetCost(scens[i])]
             min_cost == MinCost(costs)
             max_cost == MaxCost(costs)
         IN  [empty |-> FALSE,
              scenarios |-> [i \in 1..Len(scens) |->
                                [name |-> GetNameOrUnknown(scens[i]),
                                 cost |-> Num(costs[i]),
                                 description |-> ""]],
              best_scenario |-> GetName(scens[IndexOf(costs, min_cost)]),
              worst_scenario |-> GetName(scens[IndexOf(costs, max_cost)]),
              average_cost |-> Frac(SumSeq(costs), Len(costs)),
              cost_range |-> Num(max_cost - min_cost),
              savings_potential |-> Num(max_cost - min_cost)]

CallCompareCostScenarios ==
    /\ call' = [op |-> "compare_cost_scenarios"]
    /\ result' = compare_cost_scenarios(scenarios)
    /\ raised' = Except("none")
    /\ UNCHANGED inputs

\* scenario dicts with or without a name and a cost; none has a description
ScenarioDicts ==
    [name : {Present(n) : n \in ScenarioNames} \cup {MissingName},
     cost : {Present(c) : c \in ScenarioCosts} \cup {MissingCost}]

InitScenarios ==
    /\ cost_data = <<>>
    /\ sklearn_installed = TRUE
    /\ raw_data = <<>>
    /\ scenarios \in Frames(ScenarioDicts, MaxScenarios)
    /\ now = 0
    /\ sync_history = <<>>
    /\ chatbot = Configured
    /\ prev = NoPrev
    /\ call = NoCall
    /\ result = <<>>
    /\ raised = "none"

NextScenarios == CallCompareCostScenarios

SpecScenarios == InitScenarios /\ [][NextScenarios]_vars

(* Claims on compare_cost_scenarios *)

ScenariosCalled == call.op = "compare_cost_scenarios"

\* some scenario of cost c carries the name reported
NameOfScenarioCosting(reported, c) ==
    \E i \in 1..Len(scenarios) :
        GetCost(scenarios[i]) = c /\ reported = GetName(scenarios[i])

\* C15: for any non-empty scenario list, best_scenario is the name of a scenario
\* with the minimum cost, worst_scenario the name of a scenario with the maximum
\* cost, average_cost the mean cost, and cost_range = savings_potential = max -
\* min.
C15_BestWorstAverageRange ==
    (ScenariosCalled /\ scenarios # <<>>) =>
        LET costs == {GetCost(scenarios[i]) : i \in 1..Len(scenarios)}
            lo == CHOOSE c \in costs : \A o \in costs : c <= o
            hi == CHOOSE c \in costs : \A o \in costs : c >= o
        IN  /\ ~result.empty
            /\ NameOfScenarioCosting(result.best_scenario, lo)
            /\ NameOfScenarioCosting(result.worst_scenario, hi)
            /\ result.average_cost.n * Len(scenarios)
                   = result.average_cost.d
                       * SumSeq([i \in 1..Len(scenarios) |-> GetCost(scenarios[i])])
            /\ result.cost_range = Num(hi - lo)
            /\ result.savings_potential = Num(hi - lo)

\* Current 1000, Optimized 700, Aggressive 500: Aggressive, Current, 500.0
C15_Witness ==
    /\ ScenariosCalled
    /\ scenarios = <<[name |-> Present("Current"), cost |-> Present(1000)],
                     [name |-> Present("Optimized"), cost |-> Present(700)],
                     [name |-> Present("Aggressive"), cost |-> Present(500)]>>
    /\ result.best_scenario = Name("Aggressive")
    /\ result.worst_scenario = Name("Current")
    /\ result.cost_range = Num(500)

\* the earliest entry of the returned list whose cost is c
EarliestCosting(listed, c) ==
    CHOOSE i \in 1..Len(listed) :
        listed[i].cost = Num(c) /\ \A j \in 1..(i - 1) : listed[j].cost # Num(c)

\* C29: for any non-empty scenario list, best_scenario and worst_scenario are
\* each the name of an entry of the returned scenarios list, also for
\* scenarios given without a name or without a cost, and of several scenarios
\* tied on the minimum or the maximum cost the earliest in input order is
\* reported.
C29_BestAndWorstAreListedNames ==
    (ScenariosCalled /\ scenarios # <<>>) =>
        LET listed == result.scenarios
            costs == {GetCost(scenarios[i]) : i \in 1..Len(scenarios)}
            lo == CHOOSE c \in costs : \A o \in costs : c <= o
            hi == CHOOSE c \in costs : \A o \in costs : c >= o
        IN  /\ Len(listed) = Len(scenarios)
            /\ result.best_scenario = Name(listed[EarliestCosting(listed, lo)].name)
            /\ result.worst_scenario = Name(listed[EarliestCosting(listed, hi)].name)

----------------------------------------------------------------------------
(* DataProcessor.process_cost_data *)

\* a value of a raw record: a number, a date, a text that is neither, or the
\* key missing from the record
Number(v) == [kind |-> "number", v |-> v]

Date(d) == [kind |-> "date", v |-> d]

Text == [kind |-> "text", v |-> 0]

Absent == [kind |-> "absent", v |-> 0]

\* pandas' missing timestamp
NaT == -1

\* "cost" in pd.DataFrame(raw_data).columns: some record has the key
HasColumn(raw, key) == \E i \in 1..Len(raw) : raw[i][key].kind # "absent"

\* pd.to_numeric(column, errors="coerce").fillna(0): a text becomes NaN, a
\* record without the key is NaN already, and NaN becomes 0
ToNumeric(field) == IF field.kind = "number" THEN field.v ELSE 0

\* pd.to_datetime(column): NaT where the record has no date
ToDatetime(field) == IF field.kind = "date" THEN field.v ELSE NaT

\* lines 31-47.  df.get(key, default) hands back the default itself when no
\* record has the key: pd.to_numeric(0) is the scalar 0, which has no
\* fillna (AttributeError); pd.to_datetime raises on a text that is no date;
\* both end in the except branch, which returns an empty frame.  Without a
\* date column every row is stamped with datetime.now()
process_cost_data(raw, t) ==
    IF ~HasColumn(raw, "cost") \/ ~HasColumn(raw, "usage") THEN <<>>      \* except
    ELSE IF \E i \in 1..Len(raw) : raw[i].date.kind = "text" THEN <<>>   \* except
    ELSE [i \in 1..Len(raw) |->
            Row(IF HasColumn(raw, "date") THEN ToDatetime(raw[i].date) ELSE t,
                raw[i].service, raw[i].region,
                ToNumeric(raw[i].cost), ToNumeric(raw[i].usage))]

\* the exception raised inside the try block of process_cost_data
ProcessError(raw) ==
    IF ~HasColumn(raw, "cost") \/ ~HasColumn(raw, "usage") THEN "AttributeError"
    ELSE IF \E i \in 1..Len(raw) : raw[i].date.kind = "text" THEN "ValueError"
    ELSE "none"

\* prev keeps what the call of process_cost_data before this one returned
CallProcessCostData ==
    /\ call' = [op |-> "process_cost_data"]
    /\ result' = process_cost_data(raw_data, now)
    /\ raised' = Except(ProcessError(raw_data))
    /\ prev' = IF call.op = "process_cost_data"
               THEN [op |-> call.op, result |-> result] ELSE prev
    /\ UNCHANGED <<cost_data, sklearn_installed, raw_data, scenarios, now, sync_history, chatbot>>

\* time passes between two calls
Tick ==
    /\ now < MaxNow
    /\ now' = now + 1
    /\ UNCHANGED <<cost_data, sklearn_installed, raw_data, scenarios, prev, call, result,
                   raised, sync_history, chatbot>>

RawRecords ==
    [date : {Date(0), Text, Absent},
     service : {DefaultService},
     region : {DefaultRegion},
     cost : {Number(5), Text, Absent},
     usage : {Number(1), Text, Absent}]

InitProcess ==
    /\ cost_data = <<>>
    /\ sklearn_installed = TRUE
    /\ raw_data \in Frames(RawRecords, MaxRawRows)
    /\ scenarios = <<>>
    /\ now = 0
    /\ sync_history = <<>>
    /\ chatbot = Configured
    /\ prev = NoPrev
    /\ call = NoCall
    /\ result = <<>>
    /\ raised = "none"

NextProcess == CallProcessCostData \/ Tick

SpecProcess == InitProcess /\ [][NextProcess]_vars

(* Claims on process_cost_data *)

ProcessCalled == call.op = "process_cost_data"

\* C16: process_cost_data keeps every input observation: one output row per
\* input record, and a cost or usage that cannot be parsed as a number is 0 in
\* its row; the record is not dropped and the build does not fail.
C16_OneRowPerRecord ==
    ProcessCalled =>
        /\ Len(result) = Len(raw_data)
        /\ \A i \in 1..Len(raw_data) :
              /\ raw_data[i].cost.kind # "number" => result[i].cost = 0
              /\ raw_data[i].usage.kind # "number" => result[i].usage = 0

\* C20: two invocations with identical inputs return identical outputs; no
\* output field depends on call time, call order or earlier calls.
C20_SameInputSameOutput ==
    (ProcessCalled /\ prev.op = "process_cost_data") => result = prev.result

----------------------------------------------------------------------------
(* A batch of independent calls over the same data: the components that    *)
(* take observation data, raw records or scenarios, called in any order    *)

\* df without one of its columns
DropColumn(df, column) ==
    [i \in 1..Len(df) |-> [f \in (DOMAIN df[i]) \ {column} |-> df[i][f]]]

BatchRows == {Row(d, DefaultService, DefaultRegion, 10, 1) : d \in {0, 1}}

\* well-formed frames, and the same frames without the cost or the date column
BatchFrames ==
    Frames(BatchRows, MaxBatchRows)
        \cup {DropColumn(df, column) :
                 df \in Frames(BatchRows, MaxBatchRows) \ {<<>>},
                 column \in {"cost", "date"}}

\* a complete record, one with a date that cannot be parsed, one without a cost
BatchRawRecords ==
    {[date |-> Date(0), service |-> DefaultService, region |-> DefaultRegion,
      cost |-> Number(5), usage |-> Number(1)],
     [date |-> Text, service |-> DefaultService, region |-> DefaultRegion,
      cost |-> Number(5), usage |-> Number(1)],
     [date |-> Date(0), service |-> DefaultService, region |-> DefaultRegion,
      cost |-> Absent, usage |-> Number(1)]}

BatchScenarios ==
    {<<>>,
     <<[name |-> Present("Current"), cost |-> Present(1000)],
       [name |-> Present("Optimized"), cost |-> Present(700)],
       [name |-> Present("Aggressive"), cost |-> Present(500)]>>}

InitBatch ==
    /\ \/ /\ cost_data \in BatchFrames
          /\ raw_data = <<>>
          /\ scenarios = <<>>
       \/ /\ cost_data = <<>>
          /\ raw_data \in Frames(BatchRawRecords, MaxBatchRows)
          /\ scenarios = <<>>
       \/ /\ cost_data = <<>>
          /\ raw_data = <<>>
          /\ scenarios \in BatchScenarios
    /\ sklearn_installed \in BOOLEAN
    /\ now = 0
    /\ sync_history = <<>>
    /\ chatbot = Configured
    /\ prev = NoPrev
    /\ call = NoCall
    /\ result = <<>>
    /\ raised = "none"

NextBatch ==
    \/ CallProcessCostData
    \/ CallCalculateTrends
    \/ CallDetectAnomalies
    \/ CallForecast
    \/ CallIdentifyCostDrivers
    \/ CallCalculateCostElasticity
    \/ CallCompareCostScenarios
    \/ Tick

SpecBatch == InitBatch /\ [][NextBatch]_vars

(* Claims on every component *)

\* the components that return a dict, and those that return a list
DictOps == {"calculate_trends", "calculate_cost_elasticity"}

ListOps == {"detect_cost_anomalies_advanced", "forecast_with_confidence_intervals",
            "identify_cost_drivers"}

AnalysisOps == DictOps \cup ListOps

\* C17: given empty input, every component returns its empty result and raises
\* nothing: an empty frame from process_cost_data([]), {} from calculate_trends,
\* calculate_cost_elasticity and compare_cost_scenarios, [] from
\* detect_cost_anomalies_advanced, forecast_with_confidence_intervals and
\* identify_cost_drivers.
C17_EmptyInputEmptyResult ==
    /\ (ProcessCalled /\ raw_data = <<>>) => (result = <<>> /\ raised = "none")
    /\ (call.op \in DictOps /\ cost_data = <<>>)
           => (result = EmptyDict /\ raised = "none")
    /\ (ScenariosCalled /\ scenarios = <<>>) => (result = EmptyDict /\ raised = "none")
    /\ (call.op \in ListOps /\ cost_data = <<>>) => (result = <<>> /\ raised = "none")

\* compare_cost_scenarios([]) returned {}
C17_Witness ==
    /\ ScenariosCalled
    /\ scenarios = <<>>
    /\ result = EmptyDict
    /\ raised = "none"

\* the exception raised inside the body of the last call
RaisedInside ==
    CASE call.op = "process_cost_data" -> ProcessError(raw_data)
      [] call.op = "calculate_trends" -> TrendsError(cost_data)
      [] call.op = "detect_cost_anomalies_advanced" -> AnomaliesError(cost_data)
      [] call.op = "forecast_with_confidence_intervals" -> ForecastError(cost_data)
      [] call.op = "identify_cost_drivers" -> DriversError(cost_data)
      [] call.op = "calculate_cost_elasticity" -> ElasticityError(cost_data, call.service)
      [] OTHER -> "none"

\* C18: a failure raised inside a component (a frame without the cost or date
\* column, a date that cannot be parsed) is caught at the component's boundary:
\* the call returns the component's empty result and no exception reaches the
\* caller.
C18_FailuresCaughtAtBoundary ==
    /\ raised = "none"
    /\ RaisedInside # "none" =>
           IF call.op \in DictOps THEN result = EmptyDict ELSE result = <<>>

\* calculate_trends on a frame without its cost column: KeyError inside, {} out
C18_Witness ==
    /\ call.op = "calculate_trends"
    /\ cost_data # <<>>
    /\ "cost" \notin DOMAIN cost_data[1]
    /\ RaisedInside = "KeyError"
    /\ result = EmptyDict
    /\ raised = "none"

\* what the analysis named by c returns when run alone on df
RunAlone(df, installed, c, returned) ==
    CASE c.op = "calculate_trends" -> returned = calculate_trends(df, c.window)
      [] c.op = "forecast_with_confidence_intervals" ->
             returned = forecast_with_confidence_intervals(df, c.days_ahead, c.confidence)
      [] c.op = "identify_cost_drivers" -> returned = identify_cost_drivers(df, c.top_n)
      [] c.op = "calculate_cost_elasticity" ->
             returned = calculate_cost_elasticity(df, c.service)
      [] c.op = "detect_cost_anomalies_advanced" ->
             \E score \in [DailyValues(df) -> ScoreLevels],
                lifted \in SUBSET ZscoreTies(DailySeries(df)) :
                 returned = detect_cost_anomalies_advanced(df, c.method, c.contamination,
                                                           installed, score, lifted)

----------------------------------------------------------------------------
(* detect_cost_anomalies_advanced on series long enough for a z-score      *)
(* above 3                                                                 *)

\* the days of a series of n days that carry the higher cost: the first j
\* days, a single day, or every day but one
HighDays(n) ==
    {1..j : j \in 0..n} \cup {{p} : p \in 1..n} \cup {(1..n) \ {p} : p \in 1..n}

\* one observation a day on the days 0..n-1
ZscoreFrames ==
    UNION {{[k \in 1..n |->
                Row(k - 1, DefaultService, DefaultRegion,
                    IF k \in H THEN ZscoreCosts[2] ELSE ZscoreCosts[1], 1)] :
             H \in HighDays(n)} : n \in 0..MaxZscoreDates}

InitZscore ==
    /\ cost_data \in ZscoreFrames
    /\ sklearn_installed = TRUE
    /\ Idle

NextZscore == CallDetectAnomalies

SpecZscore == InitZscore /\ [][NextZscore]_vars

(* Claims on the zscore method *)

ZscoreCalled == AnomaliesCalled /\ call.method = "zscore"

\* the positions k of the series x with |x[k] - mean| / std > 3, mean and std
\* those of the population: with dev = n (x[k] - mean), an integer, and
\* sum dev^2 = n^3 var, the test is n dev^2 > 9 sum dev^2
PositionsAboveThree(x) ==
    LET n == Len(x)
        S == SumSeq(x)
        dev == [k \in 1..n |-> n * x[k] - S]
        ssd == SumSeq([k \in 1..n |-> dev[k] * dev[k]])
    IN  {k \in 1..n : n * dev[k] * dev[k] > 9 * ssd}

\* the positions k with |x[k] - mean| / std = 3, std > 0
PositionsAtThree(x) ==
    LET n == Len(x)
        S == SumSeq(x)
        dev == [k \in 1..n |-> n * x[k] - S]
        ssd == SumSeq([k \in 1..n |-> dev[k] * dev[k]])
    IN  {k \in 1..n : ssd # 0 /\ n * dev[k] * dev[k] = 9 * ssd}

\* the dates, as returned, of the positions K of the daily series
DatesAt(K) ==
    LET daily == DailyCosts(cost_data)
    IN  {isoformat(daily[k].date) : k \in K}

FlaggedDates == {result[k].date : k \in 1..Len(result)}

\* C21, as stated: with method zscore the dates flagged are exactly those whose
\* daily cost x has |x - mean| / std > 3, mean and std those of the population;
\* nothing is flagged when std is 0.
C21_ZscoreFlagsExactlyAboveThree ==
    ZscoreCalled =>
        FlaggedDates = DatesAt(PositionsAboveThree(DailySeries(cost_data)))

\* C21, amended: with method zscore every date whose daily cost x has
\* |x - mean| / std > 3 (population mean and std) is flagged and no date with
\* |x - mean| / std < 3 is; a date whose score is 3 exactly is flagged when
\* rounding lifts its quotient above 3; nothing is flagged when std is 0.
C21_ZscoreFlagsAboveThreeAndTies ==
    ZscoreCalled =>
        LET x == DailySeries(cost_data)
        IN  /\ DatesAt(PositionsAboveThree(x)) \subseteq FlaggedDates
            /\ FlaggedDates \subseteq DatesAt(PositionsAboveThree(x) \cup PositionsAtThree(x))

\* eleven days, ten at 7 and the last at 0: the last day is flagged
C21_Witness ==
    /\ ZscoreCalled
    /\ Len(cost_data) = 11
    /\ \A i \in 1..10 : cost_data[i].cost = 7
    /\ cost_data[11].cost = 0
    /\ Len(result) = 1
    /\ result[1].date = isoformat(10)

\* C30, as stated: with method zscore no point of a series of 10 or fewer
\* distinct dates is flagged, whatever the costs.
C30_NothingFlaggedUpToTenDates ==
    (ZscoreCalled /\ Cardinality(DatesOf(cost_data)) <= 10) => result = <<>>

\* C30, amended: with method zscore no point of a series of 9 or fewer distinct
\* dates is flagged, whatever the costs; on 10 dates a point is flagged only
\* when its score is 3 exactly and rounding lifts it; from 11 dates on points
\* are flagged outright.
C30_NothingFlaggedUpToNineDates ==
    ZscoreCalled =>
        /\ Cardinality(DatesOf(cost_data)) <= 9 => result = <<>>
        /\ Cardinality(DatesOf(cost_data)) = 10 =>
               FlaggedDates \subseteq DatesAt(PositionsAtThree(DailySeries(cost_data)))

\* nine days, one of them at 7 and the others at 0: a score of 2.83, no flag
C30_Witness ==
    /\ ZscoreCalled
    /\ Len(cost_data) = 9
    /\ Cardinality({i \in 1..9 : cost_data[i].cost = 7}) = 1
    /\ result = <<>>

(* Claims on the iqr method *)

\* four times the q-th quartile (q = 1 or 3) of the series x: with the sorted
\* values s and q (n - 1) = 4 lo + r, the quartile lies r quarters of the way
\* from s[lo + 1] to s[lo + 2]
FourTimesQuartile(x, q) ==
    LET s == SortedSeq(x)
        lo == (q * (Len(x) - 1)) \div 4
        r == (q * (Len(x) - 1)) % 4
    IN  IF r = 0 THEN 4 * s[lo + 1] ELSE (4 - r) * s[lo + 1] + r * s[lo + 2]

\* the positions of x strictly outside [Q1 - 1.5 IQR, Q3 + 1.5 IQR]: with
\* A = 4 Q1 and B = 4 Q3 the bounds, times 8, are 5A - 3B and 5B - 3A
PositionsOutsideFences(x) ==
    LET A == FourTimesQuartile(x, 1)
        B == FourTimesQuartile(x, 3)
    IN  {k \in 1..Len(x) : 8 * x[k] < 5 * A - 3 * B \/ 8 * x[k] > 5 * B - 3 * A}

\* C22: with method iqr the dates flagged are exactly those whose daily cost
\* lies strictly outside [Q1 - 1.5 IQR, Q3 + 1.5 IQR], Q1 and Q3 the 25th and
\* 75th percentiles of the daily costs; a cost equal to a bound is not flagged.
C22_IqrFlagsStrictlyOutsideFences ==
    (AnomaliesCalled /\ call.method = "iqr") =>
        /\ FlaggedDates = DatesAt(PositionsOutsideFences(DailySeries(cost_data)))
        /\ Len(result) = Cardinality(FlaggedDates)

\* costs 0, 0, 0, 100: Q1 = 0, Q3 = 25, fences -37.5 and 62.5; the day at 100
\* is flagged, the days at 0 are not
C22_Witness ==
    /\ AnomaliesCalled
    /\ call.method = "iqr"
    /\ DailySeries(cost_data) = <<0, 0, 0, 100>>
    /\ Len(result) = 1
    /\ result[1].cost = Num(100)

(* Further claims on forecast_with_confidence_intervals *)

\* a <= b for two numbers, neither NaN
FLe(a, b) == ~a.nan /\ ~b.nan /\ a.n * b.d <= b.n * a.d

\* the daily series lies on a line over the positions 0..n-1: equal steps
PerfectlyLinear(y) ==
    /\ Len(y) >= 2
    /\ \A k \in 1..(Len(y) - 1) : y[k + 1] - y[k] = y[2] - y[1]

\* C23: the forecast line is the least-squares line through (position, cost),
\* positions 0..n-1 in date order whatever the calendar gaps, and the k-th
\* forecast is its value at position n+k-1; for a perfectly linear series
\* y = a x + b the k-th forecast is a (n+k-1) + b, with lower_bound <= forecast
\* <= upper_bound and zero margin.
C23_LinearSeriesIsExtended ==
    (ForecastCalled /\ PerfectlyLinear(DailySeries(cost_data))) =>
        LET y == DailySeries(cost_data)
            a == y[2] - y[1]
        IN  /\ Len(result) = call.days_ahead
            /\ \A k \in 1..Len(result) :
                  /\ result[k].forecasted_cost = Num(y[Len(y)] + a * k)
                  /\ result[k].upper_bound = result[k].forecasted_cost
                  /\ FLe(result[k].lower_bound, result[k].forecasted_cost)
                  /\ FLe(result[k].forecasted_cost, result[k].upper_bound)

\* C24: within one call the margin upper_bound - forecasted_cost is the same
\* for every entry returned: it does not depend on how far ahead the entry lies.
C24_MarginConstantOverHorizon ==
    ForecastCalled =>
        \A j, k \in 1..Len(result) :
            FSub(result[j].upper_bound, result[j].forecasted_cost)
                = FSub(result[k].upper_bound, result[k].forecasted_cost)

\* two days ahead of a series off its line: one margin, above zero, for both
C24_Witness ==
    /\ ForecastCalled
    /\ Len(result) >= 2
    /\ result[1].upper_bound # result[1].forecasted_cost
    /\ result[1].forecasted_cost # result[2].forecasted_cost
    /\ FSub(result[1].upper_bound, result[1].forecasted_cost)
           = FSub(result[2].upper_bound, result[2].forecasted_cost)

\* C26: every entry returned satisfies lower_bound <= forecasted_cost <=
\* upper_bound, for any input series, steeply decreasing ones included.
C26_ForecastWithinItsBounds ==
    ForecastCalled =>
        \A k \in 1..Len(result) :
            /\ FLe(result[k].lower_bound, result[k].forecasted_cost)
            /\ FLe(result[k].forecasted_cost, result[k].upper_bound)

(* The daily series of the analyses *)

\* the least of the per-date totals of df
LeastDailyTotal(df) ==
    CHOOSE c \in {CostOn(df, d) : d \in DatesOf(df)} :
        \A d \in DatesOf(df) : c <= CostOn(df, d)

\* C25: the daily series derived from the observations has exactly one entry
\* per distinct date of the input, in strictly increasing date order, holding
\* the sum of the costs observed on that date, whatever the order and
\* duplication of dates in the input; a date absent from the input has no
\* entry (the least daily cost reported is that of a date present).
C25_DailySeriesOneEntryPerDate ==
    TrendsCalled =>
        LET daily_costs == DailyCosts(cost_data)
            n == Len(daily_costs)
        IN  /\ n = Cardinality(DatesOf(cost_data))
            /\ {daily_costs[k].date : k \in 1..n} = DatesOf(cost_data)
            /\ \A k \in 1..(n - 1) : daily_costs[k].date < daily_costs[k + 1].date
            /\ \A k \in 1..n :
                  daily_costs[k].cost = CostOn(cost_data, daily_costs[k].date)
            /\ result.min_daily_cost = Num(LeastDailyTotal(cost_data))
            /\ result.current_daily_cost = Num(CostOn(cost_data, LastDate(cost_data)))

\* rows out of date order, a date observed twice, a day without observation
C25_Witness ==
    /\ TrendsCalled
    /\ Len(cost_data) = 3
    /\ cost_data[1].date = 2 /\ cost_data[1].cost = 80
    /\ cost_data[2].date = 0 /\ cost_data[2].cost = 100
    /\ cost_data[3].date = 2 /\ cost_data[3].cost = 80
    /\ Len(DailyCosts(cost_data)) = 2
    /\ result.min_daily_cost = Num(100)
    /\ result.current_daily_cost = Num(160)

----------------------------------------------------------------------------
(* DataSyncScheduler._sync_wrapper *)

\* the records _sync_wrapper keeps after a sync that returned
HistoryLimit == 100

\* what chatbot.sync_aws_data does: return its data, return an error status
\* (AWS credentials not configured, or an exception it caught itself), or
\* raise, the case the except clause of _sync_wrapper is written for (the
\* chatbot is whatever object the constructor was given)
ChatbotModes == {"success", "error", "raises"}

\* self.chatbot.sync_aws_data(days=1), when it returns
sync_aws_data(mode) ==
    IF mode = "success"
    THEN [status |-> "success", data_points |-> 1, insights_generated |-> 1]
    ELSE [status |-> "error", message |-> "AWS credentials not configured"]

\* d.get(key, default)
Get(d, key, default) == IF key \in DOMAIN d THEN d[key] ELSE default

\* history[-k:]
LastRecords(history, k) ==
    IF Len(history) > k THEN SubSeq(history, Len(history) - k + 1, Len(history))
    ELSE history

\* sync_history after one run of _sync_wrapper at the clock reading timestamp
sync_wrapper(history, mode, timestamp) ==
    IF mode = "raises"
    THEN Append(history, [timestamp |-> timestamp, status |-> "error",
                          error |-> "Exception"])
    ELSE LET sync_result == sync_aws_data(mode)
             sync_record == [timestamp |-> timestamp,
                             status |-> sync_result.status,
                             data_points |-> Get(sync_result, "data_points", 0),
                             insights_generated |->
                                 Get(sync_result, "insights_generated", 0)]
             appended == Append(history, sync_record)
         IN  IF Len(appended) > HistoryLimit
             THEN LastRecords(appended, HistoryLimit)
             ELSE appended

\* one scheduled run; the next one comes later on the clock
SyncWrapper ==
    /\ now < MaxSyncRuns
    /\ sync_history' = sync_wrapper(sync_history, chatbot.mode, now)
    /\ now' = now + 1
    /\ call' = [op |-> "_sync_wrapper"]
    /\ result' = <<>>
    /\ raised' = "none"
    /\ UNCHANGED <<cost_data, sklearn_installed, raw_data, scenarios, prev, chatbot>>

\* between two runs the chatbot starts or stops failing
ChatbotChanges ==
    \E mode \in ChatbotModes \ {chatbot.mode} :
        /\ chatbot.changes < MaxChatbotChanges
        /\ chatbot' = [mode |-> mode, changes |-> chatbot.changes + 1]
        /\ UNCHANGED <<cost_data, sklearn_installed, raw_data, scenarios, now, prev,
                       call, result, raised, sync_history>>

InitScheduler ==
    /\ cost_data = <<>>
    /\ sklearn_installed = TRUE
    /\ raw_data = <<>>
    /\ scenarios = <<>>
    /\ now = 0
    /\ sync_history = <<>>
    /\ chatbot \in [mode : ChatbotModes, changes : {0}]
    /\ prev = NoPrev
    /\ call = NoCall
    /\ result = <<>>
    /\ raised = "none"

NextScheduler == SyncWrapper \/ ChatbotChanges

SpecScheduler == InitScheduler /\ [][NextScheduler]_vars

(* Claims on _sync_wrapper *)

\* C27: after any sequence of scheduled sync runs, each succeeding or raising,
\* sync_history holds at most 100 records, and they are the most recent runs
\* in run order.
C27_HistoryHoldsLastHundredRuns ==
    /\ Len(sync_history) <= HistoryLimit
    /\ \A k \in 1..Len(sync_history) :
          sync_history[k].timestamp = now - Len(sync_history) + k - 1

====
